---- MODULE Spec2Model ----
(***************************************************************************)
(* EGAP Agent Command Center (egap-acc): the task store, the HITL          *)
(* governance handlers (approve / reject), the two zombie views of the     *)
(* task queue, the message bus and the trace store, as a state machine.    *)
(* Handlers are split at their awaits: every await is a point where        *)
(* another request may run.                                                *)
(***************************************************************************)
EXTENDS Integers, Sequences, FiniteSets, TLC

\* ------------------------------------------------------------------ bounds
MaxTasks      == 1   \* task records the store ever holds under Spec
MaxCalls      == 2   \* approve / reject requests ever started under Spec
MaxQueueTasks == 2   \* task records the store ever holds under SpecQueue
MaxTicks      == 1   \* clock advances under SpecQueue
MaxCycles     == 2   \* discovery cycles the timer starts

\* ------------------------------------------------------- program constants
ZOMBIE_THRESHOLD_MS == 300000
ZombieSeedAgeMs     == 600000

\* what task.inputPayload holds of a traceId: NoPayload when the task has no
\* inputPayload at all, NoTraceId when the payload has no traceId member, ""
\* the empty string, the others identifiers
NoPayload == "<null>"
NoTraceId == "<undefined>"
IngestTraceIds == {"", "trace-A"}

\* the id the store gives the n-th row of the Agent table
AgentIdAt(n) == "agent-" \o ToString(n)
FirstAgent == AgentIdAt(1)

\* how far one clock advance moves Date.now(), in ms
TickSteps == {ZOMBIE_THRESHOLD_MS, ZOMBIE_THRESHOLD_MS + 1000}

VARIABLES
    tasks,      \* Task table: id -> [status, createdAt, traceId, agentId]
    calls,      \* approve / reject requests: slot -> request state
    bus,        \* messages published to the topic, in publish order
    spans,      \* TraceSpan table, in insertion order
    now,        \* Date.now()
    ticks,      \* clock advances so far
    uuids,      \* identifiers randomUUID() has returned so far
    reader,     \* the GET /api/tasks or /api/tasks/zombies request in progress
    resp,       \* the response to that request (NoResp until it is answered)
    trReq,      \* the last GET /api/traces request: its query and its limit
    trResp,     \* the response to that request
    agents,     \* the Agent table
    discoveryStatus,  \* the DiscoveryStatus object of the process
    cycles,     \* the runs of discoverAgents, in the order the timer starts them
    seen,       \* the last response of GET /api/discovery
    report,     \* the last response of GET /api/reconciliation
    scripts     \* the two seed scripts: where each run is and what it holds

\* the state of the trace map endpoint
traceVars == <<trReq, trResp>>
\* the state of agent discovery
discVars == <<agents, discoveryStatus, cycles, seen>>

vars == <<tasks, calls, bus, spans, now, ticks, uuids, reader, resp, trReq, trResp,
          agents, discoveryStatus, cycles, seen, report, scripts>>

Slots == 1..MaxCalls
\* request.params.id: any id, 0 is an id no task ever has
ReqIds == 0..MaxTasks

\* no record: what a request holds before its update has returned one
NoTask == [id |-> 0, status |-> "none", createdAt |-> 0, traceId |-> NoTraceId,
           agentId |-> "none", agentName |-> "none"]

IdleCall == [pc |-> "idle", kind |-> "none", id |-> 0, start |-> 0,
             task |-> NoTask, traceId |-> NoTraceId, err |-> "none",
             durationMs |-> 0]

\* no GET /api/reconciliation request yet
NoReport == [made |-> FALSE,
             ingress |-> [totalReceived |-> 0, totalPublished |-> 0,
                          totalFailed |-> 0],
             egress |-> [totalTasks |-> 0, approved |-> 0, rejected |-> 0,
                         pending |-> 0],
             reconciliation |-> [totalIngress |-> 0, totalResolved |-> 0,
                                 gap |-> 0, status |-> "BALANCED"]]

\* the discovery state of a fresh process
NoError == "<null>"
NullRun == <<>>
InitialStatus == [lastRun |-> NullRun, agentsDiscovered |-> 0,
                  agentsSynced |-> <<>>, error |-> NoError]
NoneSeen == [kind |-> "none", status |-> InitialStatus]
\* the agents registered before the process starts
SeededAgents == <<[id |-> AgentIdAt(1), name |-> "Alpha", role |-> "seeded"]>>
\* the Agent table a process may start over: empty, or seeded
AgentTables == {<<>>, SeededAgents}
\* neither seed script has been started
NoScripts == [seedTask |-> [pc |-> "idle", agentId |-> "none"],
              seedZombies |-> [pc |-> "idle", agentId |-> "none",
                               createdAt |-> 0]]
Cycles == 1..MaxCycles
\* no response of the registry yet
NoResponse == [kind |-> "none", status |-> 0, agents |-> <<>>]
\* a cycle not started yet; alone and after are bookkeeping: whether the
\* cycle started with every earlier cycle over, and the status and the Agent
\* table as the cycle left them
IdleCycle == [pc |-> "idle", res |-> NoResponse, card |-> <<>>, i |-> 0,
              alone |-> FALSE,
              after |-> [status |-> InitialStatus, agents |-> <<>>]]

\* no GET /api/traces request yet
NoTraceReq  == [query |-> [kind |-> "none", n |-> 0], limit |-> 0]
NoTraceResp == [count |-> 0 - 1, traces |-> <<>>]

IdleReader == [pc |-> "idle", now |-> 0, cutoff |-> 0, fetched |-> <<>>]
NoResp     == [kind |-> "none", count |-> 0, threshold |-> 0, items |-> <<>>]

\* ------------------------------------------------------------ task store
\* a Task row with its agent joined (include: { agent: true })
\* the name of the agent a task joins (include: { agent: true })
AgentName(aid) ==
    LET i == CHOOSE j \in DOMAIN agents : agents[j].id = aid IN agents[i].name

TaskRow(t) ==
    [id |-> t, status |-> tasks[t].status, createdAt |-> tasks[t].createdAt,
     traceId |-> tasks[t].traceId, agentId |-> tasks[t].agentId,
     agentName |-> AgentName(tasks[t].agentId)]

\* prisma.task.create: the next id, status PENDING
CreateTask(createdAt, traceId, agentId) ==
    LET id == Cardinality(DOMAIN tasks) + 1 IN
    tasks' = [t \in DOMAIN tasks \cup {id} |->
                IF t = id
                THEN [status |-> "PENDING", createdAt |-> createdAt,
                      traceId |-> traceId, agentId |-> agentId]
                ELSE tasks[t]]

\* the process starts over one of the Agent tables given; the clock starts
\* late enough for a back-dated createdAt
InitOver(tables) ==
    /\ tasks = <<>>
    /\ calls = [c \in Slots |-> IdleCall]
    /\ bus = <<>>
    /\ spans = <<>>
    /\ now = ZombieSeedAgeMs
    /\ ticks = 0
    /\ uuids = 0
    /\ reader = IdleReader
    /\ resp = NoResp
    /\ trReq = NoTraceReq
    /\ trResp = NoTraceResp
    /\ agents \in tables
    /\ discoveryStatus = InitialStatus
    /\ cycles = [k \in Cycles |-> IdleCycle]
    /\ seen = NoneSeen
    /\ report = NoReport
    /\ scripts = NoScripts

Init == InitOver(AgentTables)

Tick ==
    /\ ticks < MaxTicks
    /\ \E d \in TickSteps : now' = now + d
    /\ ticks' = ticks + 1
    /\ UNCHANGED <<tasks, calls, bus, spans, uuids, reader, resp, traceVars, discVars, report, scripts>>

\* seed-task.ts, run once; await prisma.agent.findFirst(): with no agent
\* the script exits with code 1; otherwise it issues the create for the
\* agent found
SeedTaskFind(max) ==
    /\ scripts.seedTask.pc = "idle"
    /\ Cardinality(DOMAIN tasks) < max
    /\ scripts' = [scripts EXCEPT !.seedTask =
                      IF agents = <<>>
                      THEN [pc |-> "exited", agentId |-> "none"]
                      ELSE [pc |-> "create", agentId |-> agents[1].id]]
    /\ UNCHANGED <<tasks, calls, bus, spans, now, ticks, uuids, reader, resp,
                   traceVars, discVars, report>>

\* seed-task.ts, the store applies prisma.task.create: one task for the
\* agent found, payload without traceId; the script is still waiting
SeedTask(max) ==
    /\ scripts.seedTask.pc = "create"
    /\ Cardinality(DOMAIN tasks) < max
    /\ CreateTask(now, NoTraceId, scripts.seedTask.agentId)
    /\ scripts' = [scripts EXCEPT !.seedTask.pc = "created"]
    /\ UNCHANGED <<calls, bus, spans, now, ticks, uuids, reader, resp,
                   traceVars, discVars, report>>

\* seed-task.ts resumes after the create and issues prisma.$disconnect()
SeedTaskResumes ==
    /\ scripts.seedTask.pc = "created"
    /\ scripts' = [scripts EXCEPT !.seedTask.pc = "disconnect"]
    /\ UNCHANGED <<tasks, calls, bus, spans, now, ticks, uuids, reader, resp,
                   traceVars, discVars, report>>

\* seed-task.ts, await prisma.$disconnect()
SeedTaskDisconnect ==
    /\ scripts.seedTask.pc = "disconnect"
    /\ scripts' = [scripts EXCEPT !.seedTask.pc = "done"]
    /\ UNCHANGED <<tasks, calls, bus, spans, now, ticks, uuids, reader, resp,
                   traceVars, discVars, report>>

\* the zombie seed, run once; await prisma.agent.findMany(): with no agent
\* the script returns; otherwise it issues the create of the zombie task, whose
\* createdAt is new Date(Date.now() - 10 * 60 * 1000) at this point
SeedZombiesFind(max) ==
    /\ scripts.seedZombies.pc = "idle"
    /\ Cardinality(DOMAIN tasks) < max
    /\ scripts' = [scripts EXCEPT !.seedZombies =
                      IF Len(agents) = 0
                      THEN [pc |-> "done", agentId |-> "none", createdAt |-> 0]
                      ELSE [pc |-> "zombie", agentId |-> agents[1].id,
                            createdAt |-> now - ZombieSeedAgeMs]]
    /\ UNCHANGED <<tasks, calls, bus, spans, now, ticks, uuids, reader, resp,
                   traceVars, discVars, report>>

\* the zombie seed, the store applies the first prisma.task.create: the
\* task with the back-dated createdAt and no inputPayload is stored; the
\* script is still waiting
SeedZombie(max) ==
    /\ scripts.seedZombies.pc = "zombie"
    /\ Cardinality(DOMAIN tasks) < max
    /\ CreateTask(scripts.seedZombies.createdAt, NoPayload,
                  scripts.seedZombies.agentId)
    /\ scripts' = [scripts EXCEPT !.seedZombies.pc = "zombieStored"]
    /\ UNCHANGED <<calls, bus, spans, now, ticks, uuids, reader, resp,
                   traceVars, discVars, report>>

\* the zombie seed resumes after the first create and issues the create of
\* the fresh task
SeedZombieResumes ==
    /\ scripts.seedZombies.pc = "zombieStored"
    /\ scripts' = [scripts EXCEPT !.seedZombies.pc = "fresh"]
    /\ UNCHANGED <<tasks, calls, bus, spans, now, ticks, uuids, reader, resp,
                   traceVars, discVars, report>>

\* the zombie seed, the store applies the second prisma.task.create:
\* createdAt is the store's default, no inputPayload; the script is still
\* waiting
SeedFresh(max) ==
    /\ scripts.seedZombies.pc = "fresh"
    /\ Cardinality(DOMAIN tasks) < max
    /\ CreateTask(now, NoPayload, scripts.seedZombies.agentId)
    /\ scripts' = [scripts EXCEPT !.seedZombies.pc = "freshStored"]
    /\ UNCHANGED <<calls, bus, spans, now, ticks, uuids, reader, resp,
                   traceVars, discVars, report>>

\* the zombie seed resumes after the second create and issues
\* prisma.$disconnect()
SeedFreshResumes ==
    /\ scripts.seedZombies.pc = "freshStored"
    /\ scripts' = [scripts EXCEPT !.seedZombies.pc = "disconnect"]
    /\ UNCHANGED <<tasks, calls, bus, spans, now, ticks, uuids, reader, resp,
                   traceVars, discVars, report>>

\* the zombie seed, await prisma.$disconnect()
SeedZombiesDisconnect ==
    /\ scripts.seedZombies.pc = "disconnect"
    /\ scripts' = [scripts EXCEPT !.seedZombies.pc = "done"]
    /\ UNCHANGED <<tasks, calls, bus, spans, now, ticks, uuids, reader, resp,
                   traceVars, discVars, report>>

\* the orchestrator's task for an ingress signal: the payload carries the
\* signal's traceId, and the task is for an agent of the store
IngestTask(max) ==
    /\ Cardinality(DOMAIN tasks) < max
    /\ \E tr \in IngestTraceIds, i \in DOMAIN agents :
          CreateTask(now, tr, agents[i].id)
    /\ UNCHANGED <<calls, bus, spans, now, ticks, uuids, reader, resp,
                   traceVars, discVars, report, scripts>>

\* ------------------------------------------------- approve / reject handlers
\* randomUUID(): the n-th identifier it returns; no two calls return the same
UuidPool == <<"uuid-1", "uuid-2", "uuid-3", "uuid-4", "uuid-5", "uuid-6">>
randomUUID(n) == UuidPool[n]

\* faulty variant: the payload's traceId is ignored
DeriveTraceIdAlwaysFresh(payloadTraceId, fresh) == fresh

\* (task.inputPayload as any)?.traceId || randomUUID(): ?. gives undefined
\* for a null payload, and undefined and the empty string are falsy, so all
\* three fall through to the generated identifier
DeriveTraceId(payloadTraceId, fresh) ==
    IF payloadTraceId \in {NoPayload, NoTraceId, ""} THEN fresh
    ELSE payloadTraceId

UsesUuid(payloadTraceId) == DeriveTraceId(payloadTraceId, "fresh") = "fresh"

\* faulty variant: reject puts the task back in the queue
StatusWrittenRequeue(kind) == IF kind = "approve" THEN "APPROVED" ELSE "PENDING"

\* data: { status: ... } of the two handlers
StatusWritten(kind) == IF kind = "approve" THEN "APPROVED" ELSE "REJECTED"

\* operation of the span each handler records
SpanOperation(kind) == IF kind = "approve" THEN "approve_task" ELSE "reject_task"

\* faulty variant: reject publishes like approve
AfterUpdateAlwaysPublish(kind, task) == "publish"

\* faulty variant: a task that has a resume signal on the topic gets no side
\* effects again
AfterUpdateOnce(kind, task) ==
    IF \E i \in DOMAIN bus : bus[i].data.taskId = task.id THEN "done"
    ELSE IF kind = "approve" THEN "publish" ELSE "span"

\* what the handler issues when it resumes with the updated record: approve
\* goes on to publish, reject to its span; neither looks at what earlier
\* requests did to the task
AfterUpdate(kind, task) == IF kind = "approve" THEN "publish" ELSE "span"

\* the message of publishMessage: data is the object whose JSON text the
\* message carries, attributes its attributes; by is bookkeeping (the request
\* that published the message), not part of the message
ResumeMessage(c, task, traceId) ==
    [data |-> [type |-> "RESUME", taskId |-> task.id,
               agentId |-> task.agentId, traceId |-> traceId],
     attributes |-> [traceId |-> traceId],
     by |-> c]

\* faulty variant: the span takes the payload's traceId, not the derived one
SpanRecordPayloadTraceId(c, kind, task, traceId, durationMs) ==
    [traceId |-> task.traceId, service |-> "acc",
     operation |-> IF kind = "approve" THEN "approve_task" ELSE "reject_task",
     durationMs |-> durationMs,
     metadata |-> [taskId |-> task.id, agentName |-> task.agentName],
     by |-> c]

\* data of prisma.traceSpan.create; by is bookkeeping as above
SpanRecord(c, kind, task, traceId, durationMs) ==
    [traceId |-> traceId, service |-> "acc", operation |-> SpanOperation(kind),
     durationMs |-> durationMs,
     metadata |-> [taskId |-> task.id, agentName |-> task.agentName],
     by |-> c]

\* the handler is entered: Date.now() is read and the update is issued
\* (requests take the slots in the order they arrive)
Begin(c, kind, id) ==
    /\ calls[c].pc = "idle"
    /\ \A d \in Slots : d < c => calls[d].pc # "idle"
    /\ calls' = [calls EXCEPT ![c] =
                    [IdleCall EXCEPT !.pc = "update", !.kind = kind,
                                     !.id = id, !.start = now]]
    /\ UNCHANGED <<tasks, bus, spans, now, ticks, uuids, reader, resp, traceVars, discVars, report, scripts>>

\* faulty variant: the missing record is not an error and the handler goes on
UpdateMissingIgnored(c) ==
    /\ calls' = [calls EXCEPT ![c].pc = "span", ![c].err = "NotFound"]
    /\ UNCHANGED tasks

\* prisma.task.update throws when no record has the id (the handler has no
\* try/catch: the request fails)
UpdateMissing(c) ==
    /\ calls' = [calls EXCEPT ![c].pc = "failed", ![c].err = "NotFound"]
    /\ UNCHANGED tasks

\* the store applies prisma.task.update: the status is written and the
\* record, with its agent, is what the call will give; the handler is still
\* waiting
UpdateFound(c) ==
    LET id == calls[c].id  kind == calls[c].kind IN
    /\ tasks' = [tasks EXCEPT ![id].status = StatusWritten(kind)]
    /\ calls' = [calls EXCEPT
          ![c].pc = "updated",
          ![c].task = [TaskRow(id) EXCEPT !.status = tasks'[id].status]]

\* prisma.task.update({where: {id}, data: {status}, include: {agent}})
Update(c) ==
    /\ calls[c].pc = "update"
    /\ IF calls[c].id \notin DOMAIN tasks THEN UpdateMissing(c) ELSE UpdateFound(c)
    /\ UNCHANGED <<bus, spans, now, ticks, uuids, reader, resp, traceVars, discVars, report, scripts>>

\* the handler resumes with the updated record: it derives the traceId from
\* the record's payload and issues its next call, the publish, or, for a
\* reject, the span write, whose durationMs is Date.now() - start at this
\* point
UpdateResumes(c) ==
    LET kind == calls[c].kind  task == calls[c].task IN
    /\ calls[c].pc = "updated"
    /\ calls' = [calls EXCEPT
          ![c].pc = AfterUpdate(kind, task),
          ![c].traceId = DeriveTraceId(task.traceId, randomUUID(uuids + 1)),
          ![c].durationMs = IF AfterUpdate(kind, task) = "span"
                            THEN now - calls[c].start ELSE 0]
    /\ uuids' = IF UsesUuid(task.traceId) THEN uuids + 1 ELSE uuids
    /\ UNCHANGED <<tasks, bus, spans, now, ticks, reader, resp, traceVars, discVars, report, scripts>>

\* the topic takes the message of publishMessage; the handler is still
\* waiting
Publish(c) ==
    /\ calls[c].pc = "publish"
    /\ bus' = Append(bus, ResumeMessage(c, calls[c].task, calls[c].traceId))
    /\ calls' = [calls EXCEPT ![c].pc = "published"]
    /\ UNCHANGED <<tasks, spans, now, ticks, uuids, reader, resp, traceVars, discVars, report, scripts>>

\* the handler resumes after the publish and issues the span write, with
\* durationMs read from the clock at this point
PublishResumes(c) ==
    /\ calls[c].pc = "published"
    /\ calls' = [calls EXCEPT ![c].pc = "span",
                              ![c].durationMs = now - calls[c].start]
    /\ UNCHANGED <<tasks, bus, spans, now, ticks, uuids, reader, resp, traceVars, discVars, report, scripts>>

\* faulty variant: the publish error is caught and the handler goes on
PublishFailsLogged(c) ==
    /\ calls[c].pc = "publish"
    /\ calls' = [calls EXCEPT ![c].pc = "span", ![c].err = "PublishFailure",
                              ![c].durationMs = now - calls[c].start]
    /\ UNCHANGED <<tasks, bus, spans, now, ticks, uuids, reader, resp, traceVars, discVars, report, scripts>>

\* publishMessage rejects: the await throws out of the handler
PublishFails(c) ==
    /\ calls[c].pc = "publish"
    /\ calls' = [calls EXCEPT ![c].pc = "failed", ![c].err = "PublishFailure"]
    /\ UNCHANGED <<tasks, bus, spans, now, ticks, uuids, reader, resp, traceVars, discVars, report, scripts>>

\* the store applies prisma.traceSpan.create: the row issued is stored; the
\* handler is still waiting
RecordSpan(c) ==
    /\ calls[c].pc = "span"
    /\ spans' = Append(spans, SpanRecord(c, calls[c].kind, calls[c].task,
                                         calls[c].traceId, calls[c].durationMs))
    /\ calls' = [calls EXCEPT ![c].pc = "recorded"]
    /\ UNCHANGED <<tasks, bus, now, ticks, uuids, reader, resp, traceVars, discVars, report, scripts>>

\* the handler resumes after the span write: return task
RecordSpanResumes(c) ==
    /\ calls[c].pc = "recorded"
    /\ calls' = [calls EXCEPT ![c].pc = "done"]
    /\ UNCHANGED <<tasks, bus, spans, now, ticks, uuids, reader, resp, traceVars, discVars, report, scripts>>

\* faulty variant: the failed span write takes the status update back
RecordSpanFailsRollback(c) ==
    /\ calls[c].pc = "span"
    /\ calls' = [calls EXCEPT ![c].pc = "failed", ![c].err = "StoreFailure"]
    /\ tasks' = [tasks EXCEPT ![calls[c].id].status = "PENDING"]
    /\ UNCHANGED <<bus, spans, now, ticks, uuids, reader, resp, traceVars, discVars, report, scripts>>

\* traceSpan.create rejects: the await throws out of the handler
RecordSpanFails(c) ==
    /\ calls[c].pc = "span"
    /\ calls' = [calls EXCEPT ![c].pc = "failed", ![c].err = "StoreFailure"]
    /\ UNCHANGED <<tasks, bus, spans, now, ticks, uuids, reader, resp, traceVars, discVars, report, scripts>>

\* ------------------------------------------------------- the zombie views
\* faulty variant: a task aged exactly the threshold is flagged
IsZombieInclusive(nowMs, createdAt) == nowMs - createdAt >= ZOMBIE_THRESHOLD_MS

\* now - new Date(t.createdAt).getTime() > ZOMBIE_THRESHOLD_MS
IsZombie(nowMs, createdAt) == nowMs - createdAt > ZOMBIE_THRESHOLD_MS

\* new Date(Date.now() - ZOMBIE_THRESHOLD_MS)
Cutoff(nowMs) == nowMs - ZOMBIE_THRESHOLD_MS

\* faulty variant: a task created at the cutoff is selected
CreatedBeforeInclusive(createdAt, cutoff) == createdAt <= cutoff

\* where: { createdAt: { lt: cutoff } }
CreatedBefore(createdAt, cutoff) == createdAt < cutoff

\* the ids the where clauses of the two findMany calls select
PendingIds == {t \in DOMAIN tasks : tasks[t].status = "PENDING"}
ZombieIds(cutoff) ==
    {t \in PendingIds : CreatedBefore(tasks[t].createdAt, cutoff)}

\* orderBy: { createdAt: dir }: the rows of ids in every order the store may
\* return them in (rows with equal createdAt come in either order)
Ordered(a, b, dir) == IF dir = "asc" THEN a <= b ELSE a >= b
OrderBy(ids, dir) ==
    {s \in [1..Cardinality(ids) -> ids] :
        /\ \A i, j \in DOMAIN s : i # j => s[i] # s[j]
        /\ \A i, j \in DOMAIN s :
              i < j => Ordered(tasks[s[i]].createdAt, tasks[s[j]].createdAt, dir)}

TasksOrder   == "desc"
\* faulty variant: the zombies come newest first, like the task queue
ZombiesOrderDesc == "desc"
ZombiesOrder == "asc"

\* GET /api/tasks: findMany({where: {status: 'PENDING'}, orderBy: desc})
TasksFind ==
    /\ reader.pc = "idle"
    /\ \E s \in OrderBy(PendingIds, TasksOrder) :
          reader' = [IdleReader EXCEPT !.pc = "tasks",
                        !.fetched = [i \in DOMAIN s |-> TaskRow(s[i])]]
    /\ resp' = NoResp
    /\ UNCHANGED <<tasks, calls, bus, spans, now, ticks, uuids, traceVars, discVars, report, scripts>>

\* GET /api/tasks: Date.now() is read and every row gets its isZombie flag
TasksRespond ==
    /\ reader.pc = "tasks"
    /\ reader' = [reader EXCEPT !.pc = "idle", !.now = now]
    /\ resp' = [kind |-> "tasks", count |-> Len(reader.fetched), threshold |-> 0,
                items |-> [i \in DOMAIN reader.fetched |->
                    [task |-> reader.fetched[i],
                     isZombie |-> IsZombie(now, reader.fetched[i].createdAt)]]]
    /\ UNCHANGED <<tasks, calls, bus, spans, now, ticks, uuids, traceVars, discVars, report, scripts>>

\* GET /api/tasks/zombies: the cutoff is computed and the query is issued
ZombiesBegin ==
    /\ reader.pc = "idle"
    /\ reader' = [IdleReader EXCEPT !.pc = "zombies", !.now = now,
                                    !.cutoff = Cutoff(now)]
    /\ resp' = NoResp
    /\ UNCHANGED <<tasks, calls, bus, spans, now, ticks, uuids, traceVars, discVars, report, scripts>>

\* GET /api/tasks/zombies: findMany({where: {status: 'PENDING', createdAt:
\* {lt: cutoff}}, orderBy: asc}) and the response
ZombiesFind ==
    /\ reader.pc = "zombies"
    /\ \E s \in OrderBy(ZombieIds(reader.cutoff), ZombiesOrder) :
          resp' = [kind |-> "zombies", count |-> Len(s),
                   threshold |-> ZOMBIE_THRESHOLD_MS \div 60000,   \* minutes
                   items |-> [i \in DOMAIN s |->
                                [task |-> TaskRow(s[i]), isZombie |-> TRUE]]]
    /\ reader' = [reader EXCEPT !.pc = "idle"]
    /\ UNCHANGED <<tasks, calls, bus, spans, now, ticks, uuids, traceVars, discVars, report, scripts>>

\* the requests of the governance API
Governance(slots, ids) ==
    \E c \in slots :
        \/ \E kind \in {"approve", "reject"}, id \in ids : Begin(c, kind, id)
        \/ Update(c)
        \/ UpdateResumes(c)
        \/ Publish(c)
        \/ PublishResumes(c)
        \/ PublishFails(c)
        \/ RecordSpan(c)
        \/ RecordSpanResumes(c)
        \/ RecordSpanFails(c)

Next ==
    \/ IngestTask(MaxTasks)
    \/ Governance(Slots, ReqIds)

Spec == Init /\ [][Next]_vars

\* the task queue and its two views, with the clock running and one
\* governance request
QueueSlots == {1}
NextQueue ==
    \/ Tick
    \/ SeedZombiesFind(MaxQueueTasks)
    \/ SeedZombie(MaxQueueTasks)
    \/ SeedZombieResumes
    \/ SeedFresh(MaxQueueTasks)
    \/ SeedFreshResumes
    \/ SeedZombiesDisconnect
    \/ Governance(QueueSlots, 1..MaxQueueTasks)
    \/ TasksFind
    \/ TasksRespond
    \/ ZombiesBegin
    \/ ZombiesFind

SpecQueue == Init /\ [][NextQueue]_vars

\* the governance requests over the tasks of the zombie seed, the clock
\* standing still
NextSeeded ==
    \/ SeedZombiesFind(MaxQueueTasks)
    \/ SeedZombie(MaxQueueTasks)
    \/ SeedZombieResumes
    \/ SeedFresh(MaxQueueTasks)
    \/ SeedFreshResumes
    \/ SeedZombiesDisconnect
    \/ Governance(Slots, 1..MaxQueueTasks)

SpecSeeded == Init /\ [][NextSeeded]_vars

\* ------------------------------------------------------- the trace map
\* (GET /api/traces)
\* the bounds of the trace store
MaxSpans == 6

\* the constants of the limit: default, cap and over-fetch factor
DefaultLimit == 20
MaxLimit == 100
OverFetch == 5

TraceIds == {"trace-A", "trace-B"}
NoParent == "<null>"
\* the spans written: a root span, and a child span that went well or failed
SpanShapes == {[parentId |-> NoParent, status |-> "OK"],
               [parentId |-> "span-up", status |-> "OK"],
               [parentId |-> "span-up", status |-> "ERROR"]}
\* the services that write spans, and the operation each one records
SpanServices == <<"ingress", "orchestrator", "acc">>
SpanOperations == <<"webhook", "plan", "approve_task">>

\* a row of the TraceSpan table; rows are numbered in the order written, and
\* a later row started later
TraceSpanRow(i, traceId, parentId, status) ==
    [id |-> i, traceId |-> traceId, parentId |-> parentId,
     service |-> SpanServices[((i - 1) % 3) + 1],
     operation |-> SpanOperations[((i - 1) % 3) + 1],
     status |-> status, durationMs |-> 10 * i, startedAt |-> 1000 * i]

\* trace ids are opaque: the first span written opens trace-A
NextTraceIds == IF spans = <<>> THEN {"trace-A"} ELSE TraceIds

\* a service of the platform writes a span to the trace store; the response
\* of an earlier GET /api/traces is no longer at hand
WriteSpan(max) ==
    /\ Len(spans) < max
    /\ \E traceId \in NextTraceIds, shape \in SpanShapes :
          spans' = Append(spans, TraceSpanRow(Len(spans) + 1, traceId,
                                              shape.parentId, shape.status))
    /\ trReq' = NoTraceReq
    /\ trResp' = NoTraceResp
    /\ UNCHANGED <<tasks, calls, bus, now, ticks, uuids, reader, resp, discVars, report, scripts>>

\* the values of ?limit= : absent, an integer text, a text that is no number
AbsentLimit == [kind |-> "absent", n |-> 0]
IntLimit(n) == [kind |-> "int", n |-> n]
TextLimit   == [kind |-> "text", n |-> 0]
QueryLimits == {AbsentLimit, TextLimit}
                 \cup {IntLimit(n) : n \in {0 - 1, 0, 1, MaxLimit + 1}}

\* Number(query.limit): NaN for undefined and for a text that is no number
NumberOf(q) == IF q.kind = "int" THEN [nan |-> FALSE, n |-> q.n]
               ELSE [nan |-> TRUE, n |-> 0]

MinOf(a, b) == IF a < b THEN a ELSE b

\* Math.min(Number(query.limit) || 20, 100): NaN and 0 are falsy
ParseLimit(q) ==
    LET v == NumberOf(q)
    IN MinOf(IF v.nan \/ v.n = 0 THEN DefaultLimit ELSE v.n, MaxLimit)

\* orderBy: {startedAt: 'desc'}: every order of the rows the store may return
RECURSIVE OrderByStartedAtDesc(_)
OrderByStartedAtDesc(ids) ==
    IF ids = {} THEN {<<>>}
    ELSE LET first == {i \in ids : \A j \in ids :
                          spans[i].startedAt >= spans[j].startedAt}
         IN UNION {{<<i>> \o r : r \in OrderByStartedAtDesc(ids \ {i})}
                   : i \in first}

\* take: k of findMany: the first k rows, or the last -k rows when k < 0
Take(s, k) ==
    IF k >= 0 THEN SubSeq(s, 1, MinOf(k, Len(s)))
    ELSE SubSeq(s, (IF Len(s) + k < 0 THEN 0 ELSE Len(s) + k) + 1, Len(s))

\* Array.prototype.slice(0, end): a negative end counts from the end
SliceTo(s, end) ==
    IF end >= 0 THEN SubSeq(s, 1, MinOf(end, Len(s)))
    ELSE SubSeq(s, 1, IF Len(s) + end < 0 THEN 0 ELSE Len(s) + end)

\* the values of a sequence, each once, in the order of first appearance
\* (the keys of the Map, the elements of the Set)
RECURSIVE Distinct(_)
Distinct(s) ==
    IF s = <<>> THEN <<>>
    ELSE LET r == Distinct(SubSeq(s, 1, Len(s) - 1))
             x == s[Len(s)]
         IN IF \E i \in DOMAIN r : r[i] = x THEN r ELSE Append(r, x)

\* the fetched rows of one trace, in the order fetched
SpansOf(rows, traceId) == SelectSeq(rows, LAMBDA r : r.traceId = traceId)

\* !s.parentId
IsRootSpan(r) == r.parentId = NoParent

\* a faulty variant: the root is always the first span fetched
RootSpanFirst(rs) == rs[1]

\* spans.find(s => !s.parentId) || spans[0]
RootSpan(rs) ==
    IF \E i \in DOMAIN rs : IsRootSpan(rs[i])
    THEN rs[CHOOSE i \in DOMAIN rs :
                /\ IsRootSpan(rs[i])
                /\ \A j \in 1..(i - 1) : ~IsRootSpan(rs[j])]
    ELSE rs[1]

\* a faulty variant: only the root span decides the status
HasErrorRootOnly(rs) == RootSpan(rs).status = "ERROR"

\* spans.some(s => s.status === 'ERROR')
HasError(rs) == \E i \in DOMAIN rs : rs[i].status = "ERROR"

\* the summary of one trace
TraceSummary(traceId, rs) ==
    LET root == RootSpan(rs)
    IN [traceId |-> traceId,
        rootService |-> root.service,
        rootOperation |-> root.operation,
        services |-> Distinct([i \in DOMAIN rs |-> rs[i].service]),
        spanCount |-> Len(rs),
        totalDurationMs |-> root.durationMs,
        status |-> IF HasError(rs) THEN "ERROR" ELSE "OK",
        startedAt |-> root.startedAt,
        spans |-> rs]

\* the rows the handler groups: the limit * 5 first rows of the ordered table
FetchWindow(ordered, limit) == Take(ordered, limit * OverFetch)

\* the response built from the fetched rows
TracesResponse(recentSpans, limit) ==
    LET keys == SliceTo(Distinct([i \in DOMAIN recentSpans |->
                                     recentSpans[i].traceId]), limit)
        traces == [k \in DOMAIN keys |->
                     TraceSummary(keys[k], SpansOf(recentSpans, keys[k]))]
    IN [count |-> Len(traces), traces |-> traces]

\* GET /api/traces, one request for a state of the store
GetTraces ==
    \E q \in QueryLimits :
        LET limit == ParseLimit(q)
        IN /\ trReq = NoTraceReq
           /\ trReq' = [query |-> q, limit |-> limit]
           /\ \E ordered \in OrderByStartedAtDesc(DOMAIN spans) :
                 trResp' = TracesResponse(
                              FetchWindow([i \in DOMAIN ordered |->
                                              spans[ordered[i]]], limit),
                              limit)
           /\ UNCHANGED <<tasks, calls, bus, spans, now, ticks, uuids,
                          reader, resp, discVars, report, scripts>>

NextTraces ==
    \/ WriteSpan(MaxSpans)
    \/ GetTraces

SpecTraces == Init /\ [][NextTraces]_vars

\* ----------------------------------------------------- agent discovery
DISCOVERY_INTERVAL_MS == 60000

\* the agents arrays a registry document may hold
AgentCards == {<<>>,
               <<[name |-> "Alpha", role |-> "planner"],
                 [name |-> "Gamma", role |-> "coder"]>>,
               <<[name |-> "Gamma", role |-> "coder"],
                 [name |-> "Delta", role |-> "tester"]>>}
\* the statuses of a response with res.ok false that the registry is given
HttpStatuses == {500}
\* what the fetch of the Agent Card may bring: no connection, a non-2xx
\* response, a body that is no JSON, a document without an agents array, a
\* document with one
RegistryResponses ==
    {[kind |-> k, status |-> 0, agents |-> <<>>] : k \in {"unreachable"}}
      \cup {[kind |-> "http", status |-> st, agents |-> <<>>]
              : st \in HttpStatuses}
      \cup {[kind |-> k, status |-> 200, agents |-> <<>>]
              : k \in {"not-json", "no-agents"}}
      \cup {[kind |-> "card", status |-> 200, agents |-> a] : a \in AgentCards}

\* the text of `HTTP ${res.status} from Agent Card`
HttpError(status) == "HTTP " \o ToString(status) \o " from Agent Card"
\* err.message || 'Unknown error'
CaughtMessage(message) == IF message = "" THEN "Unknown error" ELSE message

\* new Date().toISOString(): the text of an instant, kept as the instant
ToISOString(ms) == <<ms>>

Running(k) ==
    cycles[k].pc \in {"fetch", "json", "find", "create", "created"}
Over(k)    == cycles[k].pc \in {"done", "failed", "crashed"}
\* the process is alive while no rejection of discoverAgents went unhandled
Alive == \A k \in Cycles : cycles[k].pc # "crashed"

\* prisma.agent.findUnique({where: {name}})
FindUnique(name) == {i \in DOMAIN agents : agents[i].name = name}

\* the row prisma.agent.create writes
CreatedAgent(a) ==
    [id |-> AgentIdAt(Len(agents) + 1), name |-> a.name, role |-> a.role]

\* the timer: the first cycle runs at start, the next ones 60 s apart,
\* whether or not the earlier cycles are over
StartCycle(k) ==
    /\ Alive
    /\ cycles[k].pc = "idle"
    /\ \A j \in 1..(k - 1) : cycles[j].pc # "idle"
    /\ cycles' = [cycles EXCEPT ![k].pc = "fetch",
                    ![k].alone = \A j \in 1..(k - 1) : Over(j)]
    /\ now' = IF k = 1 THEN now ELSE now + DISCOVERY_INTERVAL_MS
    /\ UNCHANGED <<tasks, calls, bus, spans, ticks, uuids, reader, resp,
                   traceVars, report, agents, discoveryStatus, seen, scripts>>

\* a faulty variant: the failure leaves discoverAgents as a rejection
FailEscapes(k, message) ==
    /\ cycles' = [cycles EXCEPT ![k].pc = "crashed",
                    ![k].after = [status |-> discoveryStatus, agents |-> agents]]
    /\ UNCHANGED discoveryStatus

\* the cycle ends after writing the error: the early returns and the catch
Fail(k, message) ==
    /\ discoveryStatus' = [discoveryStatus EXCEPT !.error = message]
    /\ cycles' = [cycles EXCEPT ![k].pc = "failed",
                    ![k].after = [status |-> discoveryStatus', agents |-> agents]]

\* a faulty variant: only the agents just created are pushed
PushedCreatedOnly(synced, name, existing) ==
    IF existing THEN synced ELSE Append(synced, name)

\* discoveryStatus.agentsSynced.push(agent.name)
Pushed(synced, name, existing) == Append(synced, name)

\* the loop moves on after the agent at cycles[k].i: to the next agent, or
\* past the loop to lastRun = new Date().toISOString()
Advance(k, status) ==
    IF cycles[k].i < Len(cycles[k].card)
    THEN /\ discoveryStatus' = status
         /\ cycles' = [cycles EXCEPT ![k].pc = "find", ![k].i = @ + 1]
    ELSE /\ discoveryStatus' = [status EXCEPT !.lastRun = ToISOString(now)]
         /\ cycles' = [cycles EXCEPT ![k].pc = "done",
                         ![k].after = [status |-> discoveryStatus',
                                       agents |-> agents']]

\* await fetch(url) settles: the rejection goes to the catch, a response
\* with res.ok false ends the cycle with its status in the error, and any
\* other response is kept while the cycle waits for its body
Fetched(k) ==
    /\ cycles[k].pc = "fetch"
    /\ UNCHANGED <<tasks, calls, bus, spans, now, ticks, uuids, reader, resp,
                   traceVars, report, agents, seen, scripts>>
    /\ \E res \in RegistryResponses :
          CASE res.kind = "unreachable" ->
                 Fail(k, CaughtMessage("fetch failed"))
            [] res.kind = "http" -> Fail(k, HttpError(res.status))
            [] OTHER ->
                 /\ cycles' = [cycles EXCEPT ![k].pc = "json", ![k].res = res]
                 /\ UNCHANGED discoveryStatus

\* await res.json() settles: the rejection goes to the catch; otherwise the
\* agents array is checked and the three fields are written before the loop
Parsed(k) ==
    /\ cycles[k].pc = "json"
    /\ UNCHANGED <<tasks, calls, bus, spans, now, ticks, uuids, reader, resp,
                   traceVars, report, agents, seen, scripts>>
    /\ LET res == cycles[k].res IN
          CASE res.kind = "not-json" ->
                 Fail(k, CaughtMessage("Unexpected token in JSON"))
            [] res.kind = "no-agents" ->
                 Fail(k, "No agents array in Agent Card response")
            [] OTHER ->
                 LET status == [discoveryStatus EXCEPT
                                  !.agentsDiscovered = Len(res.agents),
                                  !.agentsSynced = <<>>,
                                  !.error = NoError]
                 IN IF res.agents = <<>>
                    THEN /\ discoveryStatus' =
                              [status EXCEPT !.lastRun = ToISOString(now)]
                         /\ cycles' = [cycles EXCEPT ![k].pc = "done",
                                         ![k].card = res.agents,
                                         ![k].after =
                                            [status |-> discoveryStatus',
                                             agents |-> agents']]
                    ELSE /\ discoveryStatus' = status
                         /\ cycles' = [cycles EXCEPT ![k].pc = "find",
                                         ![k].card = res.agents, ![k].i = 1]

\* await prisma.agent.findUnique: an agent of that name exists and its name
\* is pushed, or none exists and the cycle goes on to create it
Found(k) ==
    /\ cycles[k].pc = "find"
    /\ UNCHANGED <<tasks, calls, bus, spans, now, ticks, uuids, reader, resp,
                   traceVars, report, agents, seen, scripts>>
    /\ LET a == cycles[k].card[cycles[k].i]
       IN IF FindUnique(a.name) # {}
          THEN Advance(k, [discoveryStatus EXCEPT !.agentsSynced =
                               Pushed(@, a.name, TRUE)])
          ELSE /\ cycles' = [cycles EXCEPT ![k].pc = "create"]
               /\ UNCHANGED discoveryStatus

\* the store applies prisma.agent.create: the row is in the table and the
\* cycle is still waiting; the name is unique in the table, so the create
\* throws when another cycle has created the agent
Created(k) ==
    /\ cycles[k].pc = "create"
    /\ LET a == cycles[k].card[cycles[k].i]
       IN IF FindUnique(a.name) # {}
          THEN /\ Fail(k, CaughtMessage("Unique constraint failed"))
               /\ UNCHANGED agents
          ELSE /\ agents' = Append(agents, CreatedAgent(a))
               /\ cycles' = [cycles EXCEPT ![k].pc = "created"]
               /\ UNCHANGED discoveryStatus
    /\ UNCHANGED <<tasks, calls, bus, spans, now, ticks, uuids, reader, resp,
                   traceVars, report, seen, scripts>>

\* the cycle resumes after the create: the push, then the next agent or
\* the end of the loop
CreateResumes(k) ==
    /\ cycles[k].pc = "created"
    /\ UNCHANGED <<tasks, calls, bus, spans, now, ticks, uuids, reader, resp,
                   traceVars, report, agents, seen, scripts>>
    /\ LET a == cycles[k].card[cycles[k].i]
       IN Advance(k, [discoveryStatus EXCEPT !.agentsSynced =
                         Pushed(@, a.name, FALSE)])

\* the store fails under findUnique or create: the catch
StoreFails(k) ==
    /\ cycles[k].pc \in {"find", "create"}
    /\ Fail(k, CaughtMessage("Can't reach database server"))
    /\ UNCHANGED <<tasks, calls, bus, spans, now, ticks, uuids, reader, resp,
                   traceVars, report, agents, seen, scripts>>

\* GET /api/discovery: {factoryUrl, pollingInterval, ...discoveryStatus}
GetDiscovery ==
    /\ seen' = [kind |-> "status", status |-> discoveryStatus]
    /\ UNCHANGED <<tasks, calls, bus, spans, now, ticks, uuids, reader, resp,
                   traceVars, report, agents, discoveryStatus, cycles, scripts>>

NextDiscovery ==
    \/ \E k \in Cycles : StartCycle(k)
    \/ \E k \in Cycles : Fetched(k)
    \/ \E k \in Cycles : Parsed(k)
    \/ \E k \in Cycles : Found(k)
    \/ \E k \in Cycles : Created(k)
    \/ \E k \in Cycles : CreateResumes(k)
    \/ \E k \in Cycles : StoreFails(k)
    \/ GetDiscovery

\* discovery starts over an empty Agent table and fills it
InitDiscovery == InitOver({<<>>})

SpecDiscovery == InitDiscovery /\ [][NextDiscovery]_vars

\* --------------------------------------------------- the reconciliation
\* report (GET /api/reconciliation)
\* the bounds of the task store and of the ingress counts of a report
MaxReconTasks == 3
MaxReceived == 3

TaskStatuses == {"PENDING", "APPROVED", "REJECTED"}
\* the task stores of up to n tasks the approve and reject requests can leave
\* behind
TaskStores(n) ==
    UNION {{[t \in 1..m |-> [status |-> st[t], createdAt |-> ZombieSeedAgeMs,
                             traceId |-> NoTraceId, agentId |-> FirstAgent]]
              : st \in [1..m -> TaskStatuses]} : m \in 0..n}

\* the counts of the Ingress collaborator: every signal received was
\* published or failed
IngressCounts(n) ==
    {[totalReceived |-> r, totalPublished |-> r - f, totalFailed |-> f]
       : r \in 0..n, f \in 0..1} \ {[totalReceived |-> 0,
                                     totalPublished |-> 0 - 1,
                                     totalFailed |-> 1]}

\* the number of tasks in a status
CountOf(status) == Cardinality({t \in DOMAIN tasks : tasks[t].status = status})

\* a faulty variant: only the approved tasks count as resolved
TotalResolvedApprovedOnly(approved, rejected) == approved

\* totalResolved of the report
TotalResolved(approved, rejected) == approved + rejected

\* the label of a gap: balanced at zero
GapStatus(gap) == IF gap = 0 THEN "BALANCED" ELSE "DRIFT"

\* the report composed from the ingress counts and the task store
ReconciliationReport(ingress) ==
    LET approved == CountOf("APPROVED")
        rejected == CountOf("REJECTED")
        resolved == TotalResolved(approved, rejected)
        gap == ingress.totalReceived - resolved
    IN [made |-> TRUE,
        ingress |-> ingress,
        egress |-> [totalTasks |-> Cardinality(DOMAIN tasks),
                    approved |-> approved, rejected |-> rejected,
                    pending |-> CountOf("PENDING")],
        reconciliation |-> [totalIngress |-> ingress.totalReceived,
                            totalResolved |-> resolved,
                            gap |-> gap, status |-> GapStatus(gap)]]

\* GET /api/reconciliation
GetReconciliation ==
    /\ \E ingress \in IngressCounts(MaxReceived) :
          report' = ReconciliationReport(ingress)
    /\ UNCHANGED <<tasks, calls, bus, spans, now, ticks, uuids, reader, resp,
                   traceVars, discVars, scripts>>

\* a process over a task store that earlier runs of seed-task.ts and earlier
\* requests have left behind; a store with tasks has an agent
InitRecon ==
    /\ tasks \in TaskStores(MaxReconTasks)
    /\ calls = [c \in Slots |-> IdleCall]
    /\ bus = <<>>
    /\ spans = <<>>
    /\ now = ZombieSeedAgeMs
    /\ ticks = 0
    /\ uuids = 0
    /\ reader = IdleReader
    /\ resp = NoResp
    /\ trReq = NoTraceReq
    /\ trResp = NoTraceResp
    /\ agents \in AgentTables
    /\ tasks # <<>> => agents # <<>>
    /\ discoveryStatus = InitialStatus
    /\ cycles = [k \in Cycles |-> IdleCycle]
    /\ seen = NoneSeen
    /\ report = NoReport
    /\ scripts = NoScripts

NextRecon ==
    \/ SeedTaskFind(MaxReconTasks)
    \/ SeedTask(MaxReconTasks)
    \/ SeedTaskResumes
    \/ SeedTaskDisconnect
    \/ Governance(QueueSlots, 1..MaxReconTasks)
    \/ GetReconciliation

SpecRecon == InitRecon /\ [][NextRecon]_vars

\* ------------------------------------------------------------------ claims
\* bookkeeping readers used by the properties below
MessagesBy(c) == {i \in DOMAIN bus : bus[i].by = c}
SpansBy(c)    == {i \in DOMAIN spans : spans[i].by = c}
Approves == {c \in Slots : calls[c].kind = "approve"}
Rejects  == {c \in Slots : calls[c].kind = "reject"}
Succeeded(c) == calls[c].pc = "done"
\* the update of request c has been written to the store
Updated(c) ==
    \/ calls[c].pc \in {"updated", "publish", "published", "span", "recorded",
                       "done"}
    \/ calls[c].pc = "failed" /\ calls[c].err \in {"PublishFailure", "StoreFailure"}
Generated == {UuidPool[i] : i \in DOMAIN UuidPool}
\* the payload carries a usable (non-empty) traceId
CarriesTraceId(t) == tasks[t].traceId \notin {NoPayload, NoTraceId, ""}

\* C1: once a task's stored status is APPROVED it is never REJECTED afterwards,
\* and once REJECTED never APPROVED afterwards (no step of any request switches
\* a task between the two terminal statuses).
C1_NoSwitchBetweenTerminal ==
    [][\A t \in DOMAIN tasks :
          /\ tasks[t].status = "APPROVED" => tasks'[t].status # "REJECTED"
          /\ tasks[t].status = "REJECTED" => tasks'[t].status # "APPROVED"]_vars

\* C2: once an approve or reject request has updated a task, the task is never
\* PENDING again, whatever requests follow, and so it is in neither the rows
\* GET /tasks selects nor the rows GET /tasks/zombies selects (for the cutoff
\* of the current time and for a cutoff that lets every createdAt through).
C2_NeverPendingAgain ==
    \A c \in Slots : Updated(c) =>
        /\ tasks[calls[c].id].status # "PENDING"
        /\ calls[c].id \notin PendingIds
        /\ calls[c].id \notin ZombieIds(Cutoff(now))
        /\ calls[c].id \notin ZombieIds(now + 1)

\* two requests have updated one back-dated task, which would otherwise be
\* in both views
C2_Witness ==
    \E c, d \in Slots :
        /\ c # d /\ Succeeded(c) /\ Succeeded(d) /\ calls[c].id = calls[d].id
        /\ CreatedBefore(tasks[calls[c].id].createdAt, Cutoff(now))

\* what C3 asks of a state, and of a step
C3_ApproveState ==
    \A c \in Approves : Succeeded(c) =>
        LET t == calls[c].id IN
        /\ calls[c].task.status = "APPROVED"
        /\ Cardinality(MessagesBy(c)) = 1
        /\ \A i \in MessagesBy(c) :
              /\ bus[i].data.type = "RESUME"
              /\ bus[i].data.taskId = t
              /\ bus[i].data.agentId = tasks[t].agentId
              /\ bus[i].attributes.traceId = bus[i].data.traceId
              /\ DOMAIN bus[i].data = {"type", "taskId", "agentId", "traceId"}
              /\ IF CarriesTraceId(t)
                 THEN bus[i].data.traceId = tasks[t].traceId
                 ELSE /\ bus[i].data.traceId \in Generated
                      /\ \A d \in Slots \ {c} :
                            calls[d].traceId # bus[i].data.traceId
C3_ApproveStep ==
    \A c \in Slots :
        (calls[c].kind = "approve" /\ calls[c].pc = "update"
            /\ calls'[c].pc \notin {"update", "failed"})
        => tasks'[calls[c].id].status = "APPROVED"

\* C3: every successful approve returns the task with status APPROVED (its
\* update step wrote APPROVED to the store) and has published exactly one
\* resume signal {type RESUME, taskId, agentId, traceId} whose traceId, in the
\* payload and in the attributes, is the payload's traceId when the payload
\* carries one and otherwise a generated identifier that no other request
\* derived.
C3_ApprovePublishesOnce == []C3_ApproveState /\ [][C3_ApproveStep]_vars

\* two approves of a task whose payload carries no usable traceId have
\* succeeded, each with its own generated identifier
C3_Witness ==
    \E c, d \in Approves :
        /\ c # d /\ Succeeded(c) /\ Succeeded(d)
        /\ ~CarriesTraceId(calls[c].id) /\ ~CarriesTraceId(calls[d].id)

\* what C4 asks of a state, and of a step
C4_RejectState ==
    \A c \in Rejects :
        /\ MessagesBy(c) = {}
        /\ Succeeded(c) => calls[c].task.status = "REJECTED"
C4_RejectStep ==
    \A c \in Slots :
        (calls[c].kind = "reject" /\ calls[c].pc = "update"
            /\ calls'[c].pc \notin {"update", "failed"})
        => tasks'[calls[c].id].status = "REJECTED"

\* C4: a successful reject returns the task with status REJECTED (its update
\* step wrote REJECTED to the store), and no reject request, at any point of
\* its run and whatever its outcome, has a message on the bus.
C4_RejectNeverPublishes == []C4_RejectState /\ [][C4_RejectStep]_vars

\* one reject has succeeded and another has failed
C4_Witness ==
    \E c, d \in Rejects : Succeeded(c) /\ calls[d].pc = "failed"

\* the approves, resume signals and approve spans of one task
ApprovesOf(t) == {c \in Approves : calls[c].id = t}
SignalsFor(t) == {i \in DOMAIN bus : bus[i].data.taskId = t}
ApproveSpansFor(t) ==
    {i \in DOMAIN spans : /\ spans[i].metadata.taskId = t
                          /\ spans[i].operation = "approve_task"}

\* C5: approve enforces no precondition on the current status: when every
\* approve started on a task has succeeded, n of them, exactly n resume
\* signals for the task are on the bus and exactly n approve_task spans for
\* it are in the trace store, however many of them found the task already
\* APPROVED or REJECTED.
C5_ReapproveRepeatsEffects ==
    \A t \in DOMAIN tasks :
        (\A c \in ApprovesOf(t) : Succeeded(c)) =>
            /\ Cardinality(SignalsFor(t)) = Cardinality(ApprovesOf(t))
            /\ Cardinality(ApproveSpansFor(t)) = Cardinality(ApprovesOf(t))

\* two approves of one task have succeeded: the later update found the task
\* already APPROVED
C5_Witness ==
    \E t \in DOMAIN tasks :
        /\ Cardinality(ApprovesOf(t)) >= 2
        /\ \A c \in ApprovesOf(t) : Succeeded(c)
        /\ tasks[t].status = "APPROVED"

\* what C6 asks of the step that stores a span: it stores one span, of a
\* request whose status update has been written and whose handler has gone
\* on from it, and for an approve the resume signal of the request is on the
\* bus already
C6_SpanStep ==
    Len(spans') > Len(spans) =>
        /\ Len(spans') = Len(spans) + 1
        /\ LET c == spans'[Len(spans')].by IN
              /\ calls[c].pc = "span" /\ calls[c].err = "none"
              /\ tasks[calls[c].id].status # "PENDING"
              /\ calls[c].kind = "approve" => Cardinality(MessagesBy(c)) = 1

\* what C6 asks of a state: of every request that has returned, and of
\* every span in the store
C6_SpanState ==
    /\ \A c \in Slots : Succeeded(c) =>
          /\ Cardinality(SpansBy(c)) = 1
          /\ \A i \in SpansBy(c) :
                /\ spans[i].service = "acc"
                /\ spans[i].operation =
                      (IF calls[c].kind = "approve" THEN "approve_task"
                                                    ELSE "reject_task")
                /\ spans[i].metadata =
                      [taskId |-> calls[c].id,
                       agentName |-> AgentName(tasks[calls[c].id].agentId)]
                /\ spans[i].traceId = calls[c].traceId
                /\ IF CarriesTraceId(calls[c].id)
                   THEN spans[i].traceId = tasks[calls[c].id].traceId
                   ELSE spans[i].traceId \in Generated
    /\ \A i \in DOMAIN spans :
          LET c == spans[i].by IN
          /\ calls[c].pc \in {"recorded", "done"}
          /\ Cardinality(SpansBy(c)) = 1
          /\ tasks[calls[c].id].status # "PENDING"
          /\ calls[c].kind = "approve" =>
                /\ MessagesBy(c) # {}
                /\ \A m \in MessagesBy(c) :
                      /\ bus[m].data.traceId = spans[i].traceId
                      /\ bus[m].attributes.traceId = spans[i].traceId

\* C6: every successful approve or reject has appended exactly one span, with
\* service "acc", the operation of its kind, metadata {taskId, agentName} of
\* the task and its agent and the traceId the request derived; a span exists
\* only for a request whose status update has been written (the span may be
\* in the store before the request returns), and for an approve only with
\* the resume signal of the same request on the bus, carrying the same
\* traceId; the step that writes the span comes after the update and the
\* publish of the request.
C6_SpanAfterUpdateAndPublish == []C6_SpanState /\ [][C6_SpanStep]_vars

\* an approve and a reject have both succeeded
C6_Witness ==
    /\ \E c \in Approves : Succeeded(c)
    /\ \E c \in Rejects : Succeeded(c)

\* what C7 asks of a state, and of a step
C7_NotFoundState ==
    \A c \in Slots : calls[c].err = "NotFound" =>
        /\ calls[c].pc = "failed"
        /\ MessagesBy(c) = {} /\ SpansBy(c) = {}
C7_NotFoundStep ==
    \A c \in Slots :
        /\ (calls[c].pc = "update" /\ calls'[c] # calls[c]
                /\ calls[c].id \notin DOMAIN tasks)
            => /\ calls'[c].pc = "failed" /\ calls'[c].err = "NotFound"
               /\ UNCHANGED <<tasks, bus, spans>>
        /\ calls[c].pc = "failed" => calls'[c] = calls[c]

\* C7: a request whose id matches no task fails with NotFound in its update
\* step, and that step changes no task, publishes nothing and records
\* nothing; the failed request has no message and no span, then or later.
C7_NotFoundHasNoEffect == []C7_NotFoundState /\ [][C7_NotFoundStep]_vars

\* an approve and a reject have both failed with NotFound while a task exists
C7_Witness ==
    /\ DOMAIN tasks # {}
    /\ \E c \in Approves : calls[c].err = "NotFound"
    /\ \E c \in Rejects : calls[c].err = "NotFound"

\* what C8 asks of a state, and of a step
C8_PublishFailureState ==
    \A c \in Slots : calls[c].err = "PublishFailure" =>
        /\ calls[c].kind = "approve"
        /\ calls[c].pc = "failed"
        /\ MessagesBy(c) = {} /\ SpansBy(c) = {}
C8_PublishFailureStep ==
    \A c \in Slots :
        /\ calls[c].pc = "failed" => calls'[c] = calls[c]
        /\ calls'[c].err = "PublishFailure" /\ calls[c].err # "PublishFailure"
            => UNCHANGED <<bus, spans>>

\* C8: an approve whose publish failed has failed as a whole: it stays failed
\* (nothing of it is run again), it has no message on the bus and no span in
\* the trace store.
C8_PublishFailureFailsApprove ==
    []C8_PublishFailureState /\ [][C8_PublishFailureStep]_vars

\* an approve failed at its publish and a later request has run to its end
C8_Witness ==
    \E c, d \in Slots :
        /\ calls[c].err = "PublishFailure" /\ c < d /\ Succeeded(d)

\* what C9 asks of a step of the GET /tasks handler
C9_TasksStep ==
    /\ (reader.pc = "idle" /\ reader'.pc = "tasks") =>
          {reader'.fetched[i].id : i \in DOMAIN reader'.fetched} = PendingIds
    /\ (reader.pc = "tasks" /\ reader'.pc = "idle") =>
          /\ resp'.kind = "tasks"
          /\ resp'.count = Len(reader.fetched)
          /\ DOMAIN resp'.items = DOMAIN reader.fetched
          /\ \A i \in DOMAIN resp'.items :
                /\ resp'.items[i].task = reader.fetched[i]
                /\ resp'.items[i].isZombie <=>
                      (now - resp'.items[i].task.createdAt > 300000)

\* C9: GET /tasks returns every task that was PENDING when its query ran,
\* and flags a row isZombie exactly when the time read for the response minus
\* the row's createdAt is more than 300000 ms (not at 300000 itself).
C9_IsZombieStrictlyOverFiveMinutes == [][C9_TasksStep]_vars

\* a response holds a row aged exactly 5:00, not flagged, next to a flagged
\* row
C9_Witness ==
    /\ resp.kind = "tasks"
    /\ \E i, j \in DOMAIN resp.items :
          /\ reader.now - resp.items[i].task.createdAt = 300000
          /\ ~resp.items[i].isZombie
          /\ resp.items[j].isZombie

\* a response holds a row aged 5:01, flagged
C9_WitnessFiveOhOne ==
    /\ resp.kind = "tasks"
    /\ \E i \in DOMAIN resp.items :
          /\ reader.now - resp.items[i].task.createdAt = 301000
          /\ resp.items[i].isZombie

\* what C10 asks of a step of the GET /tasks/zombies handler
C10_ZombiesStep ==
    /\ (reader.pc = "idle" /\ reader'.pc = "zombies") => reader'.now = now
    /\ (reader.pc = "zombies" /\ reader'.pc = "idle") =>
          LET items == resp'.items IN
          /\ resp'.kind = "zombies"
          /\ resp'.count = Len(items)
          /\ {items[i].task.id : i \in DOMAIN items} =
                {t \in DOMAIN tasks :
                    /\ tasks[t].status = "PENDING"
                    /\ tasks[t].createdAt < reader.now - 300000}
          /\ \A i \in DOMAIN items :
                /\ items[i].task.status = "PENDING"
                /\ items[i].task.createdAt = tasks[items[i].task.id].createdAt
          /\ \A i, j \in DOMAIN items :
                i < j => /\ items[i].task.id # items[j].task.id
                         /\ items[i].task.createdAt <= items[j].task.createdAt

\* C10: GET /tasks/zombies returns exactly the tasks that, when its query
\* runs, are PENDING with createdAt strictly before the time read at the
\* request's entry minus 5 minutes, each once, oldest first.
C10_ZombiesPendingOldSorted == [][C10_ZombiesStep]_vars

\* a response holds two zombies of different age
C10_Witness ==
    /\ resp.kind = "zombies"
    /\ Len(resp.items) >= 2
    /\ resp.items[1].task.createdAt < resp.items[2].task.createdAt

\* ------------------------------------------------- claims on the trace map
\* the rows of the store that started after, and before, row i
NewerThan(i) == {j \in DOMAIN spans : spans[j].startedAt > spans[i].startedAt}
OlderThan(i) == {j \in DOMAIN spans : spans[j].startedAt < spans[i].startedAt}
\* the rows a request with the limit of trReq fetches
WindowIds ==
    IF trReq.limit >= 0
    THEN {i \in DOMAIN spans : Cardinality(NewerThan(i)) < trReq.limit * 5}
    ELSE {i \in DOMAIN spans : Cardinality(OlderThan(i)) < 0 - trReq.limit * 5}
\* the fetched rows of trace t
WindowOf(t) == {i \in WindowIds : spans[i].traceId = t}
Answered == trReq.query.kind # "none"

\* C11: every trace summary of a GET /traces response has status ERROR if
\* and only if at least one span of that trace in the fetched window has
\* status ERROR, and OK otherwise
C11_StatusErrorIffSomeSpanError ==
    \A k \in DOMAIN trResp.traces :
        LET t == trResp.traces[k] IN
        /\ t.status \in {"OK", "ERROR"}
        /\ t.status = "ERROR" <=>
              \E i \in WindowOf(t.traceId) : spans[i].status = "ERROR"

\* a response holds a trace marked ERROR for a failed child of a root span
\* that went well, next to a trace marked OK
C11_Witness ==
    /\ Answered
    /\ \E k, l \in DOMAIN trResp.traces :
          /\ trResp.traces[k].status = "ERROR"
          /\ \E i \in WindowOf(trResp.traces[k].traceId) :
                spans[i].parentId = NoParent /\ spans[i].status = "OK"
          /\ trResp.traces[l].status = "OK"

\* a response marks OK a trace whose only failed span is older than the
\* fetched window
C11_WitnessOutsideWindow ==
    /\ Answered
    /\ \E k \in DOMAIN trResp.traces :
          /\ trResp.traces[k].status = "OK"
          /\ \E i \in DOMAIN spans \ WindowIds :
                /\ spans[i].traceId = trResp.traces[k].traceId
                /\ spans[i].status = "ERROR"

\* the limit C12 gives for the query of trReq: min(N, 100), or 20 when absent
ClaimedLimit ==
    IF trReq.query.kind = "absent" THEN 20
    ELSE IF trReq.query.n < 100 THEN trReq.query.n ELSE 100
\* the ClaimedLimit * 5 most recent rows of the store
ClaimedWindow ==
    {i \in DOMAIN spans : Cardinality(NewerThan(i)) < ClaimedLimit * 5}
\* the start of the most recent of a set of rows
MostRecent(ids) ==
    CHOOSE m \in {spans[i].startedAt : i \in ids} :
        \A i \in ids : spans[i].startedAt <= m
\* what C12 asks of the response to a request with limit N or none
LimitAndOrder ==
    LET ts == trResp.traces
        rowsOf(k) == {i \in ClaimedWindow : spans[i].traceId = ts[k].traceId}
    IN /\ trReq.limit = ClaimedLimit
       /\ trResp.count = Len(ts)
       /\ trResp.count <= ClaimedLimit
       /\ \A k \in DOMAIN ts :
             /\ rowsOf(k) # {}
             /\ {ts[k].spans[x].id : x \in DOMAIN ts[k].spans} = rowsOf(k)
       /\ \A k, l \in DOMAIN ts :
             k < l => MostRecent(rowsOf(k)) > MostRecent(rowsOf(l))
       \* the summaries are those of the ClaimedLimit most recent traces
       /\ \A i \in ClaimedWindow :
             \/ \E k \in DOMAIN ts : ts[k].traceId = spans[i].traceId
             \/ Len(ts) = ClaimedLimit

\* C12: for every requested limit N, GET /traces uses limit = min(N, 100),
\* or 20 when N is absent, fetches the limit * 5 most recent spans and
\* returns at most limit trace summaries, most recent trace first (by the
\* start of each trace's most recent span in the window); the returned count
\* never exceeds the limit
C12_LimitAndOrder ==
    trReq.query.kind \in {"absent", "int"} => LimitAndOrder

\* the same for the requests with no limit or a limit of 1 or more
C12_LimitAndOrderFromOne ==
    (trReq.query.kind = "absent" \/
       (trReq.query.kind = "int" /\ trReq.query.n >= 1)) => LimitAndOrder

\* a request with ?limit=1 is answered with the more recent of two traces,
\* from a window that leaves out the oldest row of the store
C12_WitnessFromOne ==
    /\ trReq.query = IntLimit(1)
    /\ trResp.count = 1
    /\ Cardinality({spans[i].traceId : i \in DOMAIN spans}) = 2
    /\ ClaimedWindow # DOMAIN spans

\* the most recent rows of a set of rows: the first in query order
FirstInQueryOrder(ids) ==
    {i \in ids : \A j \in ids : spans[j].startedAt <= spans[i].startedAt}
\* the root C19 names for the fetched rows of a trace
ClaimedRoots(ids) ==
    LET nulls == {i \in ids : spans[i].parentId = NoParent}
    IN IF nulls # {} THEN FirstInQueryOrder(nulls) ELSE FirstInQueryOrder(ids)

\* C19: in a GET /traces response the root span of a trace is the first span
\* in query order (startedAt descending) whose parentId is null, or the first
\* span in query order when the trace has none; rootService, rootOperation,
\* startedAt and totalDurationMs of the summary are the root's own values,
\* and spanCount is the number of the trace's spans in the window
C19_RootSpanValues ==
    \A k \in DOMAIN trResp.traces :
        LET t == trResp.traces[k]
            ids == WindowOf(t.traceId)
        IN /\ t.spanCount = Cardinality(ids)
           /\ \E r \in ClaimedRoots(ids) :
                 /\ t.rootService = spans[r].service
                 /\ t.rootOperation = spans[r].operation
                 /\ t.startedAt = spans[r].startedAt
                 /\ t.totalDurationMs = spans[r].durationMs

\* a summary of a trace with two null-parent spans and a more recent child:
\* the root is the more recent of the two, not the first span fetched
C19_Witness ==
    /\ Answered
    /\ \E k \in DOMAIN trResp.traces :
          LET t == trResp.traces[k]
              ids == WindowOf(t.traceId)
          IN /\ Cardinality({i \in ids : spans[i].parentId = NoParent}) = 2
             /\ \E i \in ids : /\ spans[i].parentId # NoParent
                               /\ spans[i].startedAt > t.startedAt
             /\ t.spanCount = 3
             /\ t.totalDurationMs < 60

\* a summary of a trace with no null-parent span in the window: the root is
\* the first span fetched
C19_WitnessFallback ==
    /\ Answered
    /\ \E k \in DOMAIN trResp.traces :
          LET t == trResp.traces[k]
              ids == WindowOf(t.traceId)
          IN /\ \A i \in ids : spans[i].parentId # NoParent
             /\ Cardinality(ids) >= 2
             /\ t.startedAt = MostRecent(ids)

\* ------------------------------------------------ claims on agent discovery
\* cycle k ran with no other cycle in progress, from its start to its end
RanAlone(k) ==
    /\ Over(k)
    /\ cycles[k].alone
    /\ (k + 1 \in Cycles) => (cycles[k + 1].pc = "idle" \/ cycles[k + 1].alone)
NamesOf(table) == {table[i].name : i \in DOMAIN table}

\* C13: a discovery cycle run twice, one after the other, against an
\* unchanged registry document leaves the Agent set the same size after the
\* second run as after the first, no two Agents sharing a name, and leaves
\* agentsSynced with the same contents
C13_DiscoveryIdempotent ==
    /\ \A i, j \in DOMAIN agents : agents[i].name = agents[j].name => i = j
    /\ \A k \in Cycles :
          (/\ k + 1 \in Cycles
           /\ RanAlone(k) /\ RanAlone(k + 1)
           /\ cycles[k].pc = "done" /\ cycles[k + 1].pc = "done"
           /\ cycles[k].card = cycles[k + 1].card)
          => /\ Len(cycles[k + 1].after.agents) = Len(cycles[k].after.agents)
             /\ NamesOf(cycles[k + 1].after.agents) =
                  NamesOf(cycles[k].after.agents)
             /\ cycles[k + 1].after.status.agentsSynced =
                  cycles[k].after.status.agentsSynced

\* two cycles ran one after the other on the same document of two agents:
\* the first registered both, the second found both and created none
C13_Witness ==
    /\ RanAlone(1) /\ RanAlone(2)
    /\ cycles[1].pc = "done" /\ cycles[2].pc = "done"
    /\ cycles[1].card = cycles[2].card
    /\ Len(cycles[1].card) = 2
    /\ Len(cycles[1].after.agents) = 2
    /\ cycles[2].after.agents = cycles[1].after.agents
    /\ cycles[2].after.status.agentsSynced = <<"Alpha", "Gamma">>

\* the status left by the last cycle before k that ended well, or the
\* initial status
LastGoodBefore(k) ==
    LET good == {j \in 1..(k - 1) : cycles[j].pc = "done"}
    IN IF good = {} THEN InitialStatus
       ELSE cycles[CHOOSE j \in good : \A l \in good : l <= j].after.status

\* C14: a discovery cycle that fails, for whatever reason (non-2xx response,
\* missing or malformed agents array, network error, store error while
\* upserting), changes only DiscoveryStatus.error: lastRun, agentsDiscovered
\* and agentsSynced keep the values they had after the last successful cycle
C14_FailureChangesOnlyError ==
    \A k \in Cycles :
        (cycles[k].pc = "failed" /\ \A j \in 1..k : RanAlone(j))
        => LET left == cycles[k].after.status
               good == LastGoodBefore(k)
           IN /\ left.error # NoError
              /\ left.lastRun = good.lastRun
              /\ left.agentsDiscovered = good.agentsDiscovered
              /\ left.agentsSynced = good.agentsSynced

\* the same for the failures before the loop only: the step that ends the
\* cycle on a failed fetch or a bad document changes the error and nothing
\* else
C14_FetchFailureChangesOnlyError ==
    [][\A k \in Cycles :
          (cycles[k].pc \in {"fetch", "json"} /\ cycles'[k].pc = "failed")
          => /\ discoveryStatus'.error # NoError
             /\ discoveryStatus' =
                  [discoveryStatus EXCEPT !.error = discoveryStatus'.error]]_vars

\* C15: DiscoveryStatus is replaced as one unit: every status a GET
\* /discovery observes while a cycle runs is the initial status or the
\* complete result of one finished cycle, never a mix of the fields of two
\* cycles or a partly filled agentsSynced
C15_NoTornStatus ==
    seen.kind = "status" =>
        \/ seen.status = InitialStatus
        \/ \E k \in Cycles : Over(k) /\ seen.status = cycles[k].after.status

\* what C16 asks of a state: no failure has escaped discoverAgents, a failed
\* cycle has left its error in the status, and the tick after it can start
\* the next cycle
C16_AbsorbedState ==
    /\ Alive
    /\ \A k \in Cycles :
          cycles[k].pc = "failed" =>
             /\ cycles[k].after.status.error # NoError
             /\ (k + 1 \in Cycles /\ cycles[k + 1].pc = "idle")
                   => ENABLED StartCycle(k + 1)
\* what C16 asks of the step that ends a cycle well: lastRun is set to the
\* time of the step, and for a cycle with no other cycle in progress the
\* error is cleared and lastRun moves forward
C16_SuccessStep ==
    \A k \in Cycles :
        (cycles[k].pc # "done" /\ cycles'[k].pc = "done")
        => /\ discoveryStatus'.lastRun = <<now>>
           /\ (cycles[k].alone /\
                 ((k + 1 \in Cycles) => cycles[k + 1].pc = "idle"))
                 => /\ discoveryStatus'.error = NoError
                    /\ \/ discoveryStatus.lastRun = NullRun
                       \/ discoveryStatus.lastRun[1] < now

\* C16: every failure inside a discovery cycle is absorbed into
\* DiscoveryStatus.error and never escapes discoverAgents, so the periodic
\* loop keeps running: after a failed cycle the next timer tick still starts
\* a cycle, and a later successful cycle clears error and advances lastRun
C16_FailuresAbsorbed == []C16_AbsorbedState /\ [][C16_SuccessStep]_vars

\* a cycle failed and left its error; the next tick started a cycle that
\* ended well, cleared the error and set lastRun
C16_Witness ==
    /\ cycles[1].pc = "failed"
    /\ cycles[1].after.status.error = "HTTP 500 from Agent Card"
    /\ cycles[2].pc = "done"
    /\ cycles[2].alone
    /\ discoveryStatus.error = NoError
    /\ discoveryStatus.lastRun = <<now>>
    /\ discoveryStatus.agentsSynced # <<>>

\* ------------------------------------------ claims on the reconciliation
\* report
\* C17: for every task store and every ingress count the report has
\* totalIngress = ingress.totalReceived, totalResolved = egress.approved +
\* egress.rejected, the counts of the tasks now in those statuses, and gap =
\* totalIngress - totalResolved; computing the report changes no task, span
\* or agent
C17_ReportEqualities ==
    [][report' # report =>
          LET r == report'
              approved == Cardinality({t \in DOMAIN tasks :
                                          tasks[t].status = "APPROVED"})
              rejected == Cardinality({t \in DOMAIN tasks :
                                          tasks[t].status = "REJECTED"})
          IN /\ r.ingress \in IngressCounts(MaxReceived)
             /\ r.egress.approved = approved
             /\ r.egress.rejected = rejected
             /\ r.reconciliation.totalIngress = r.ingress.totalReceived
             /\ r.reconciliation.totalResolved = approved + rejected
             /\ r.reconciliation.gap =
                  r.ingress.totalReceived - (approved + rejected)
             /\ UNCHANGED <<tasks, calls, bus, spans, agents,
                            discoveryStatus>>]_vars

\* a report over a store with an approved, a rejected and a pending task,
\* the rejected one rejected by a request, and a gap that is not zero
C17_Witness ==
    /\ report.made
    /\ report.egress.approved = 1
    /\ report.egress.rejected = 1
    /\ report.egress.pending = 1
    /\ report.reconciliation.gap = 1
    /\ \E c \in QueueSlots : calls[c].kind = "reject" /\ calls[c].pc = "done"

\* ------------------------------------------- claims on failed approvals
\* an approve that failed after its status update
FailedAfterUpdate(c) ==
    /\ calls[c].kind = "approve"
    /\ calls[c].pc = "failed"
    /\ calls[c].err \in {"PublishFailure", "StoreFailure"}
\* what C18 asks of a state: the task of such an approve is not pending, and
\* is APPROVED unless a reject has written to it; the approve has no span,
\* and no message when its publish failed
C18_NoRollbackState ==
    \A c \in Slots : FailedAfterUpdate(c) =>
        /\ tasks[calls[c].id].status # "PENDING"
        /\ calls[c].id \notin PendingIds
        /\ (\A d \in Rejects : calls[d].id = calls[c].id => ~Updated(d))
              => tasks[calls[c].id].status = "APPROVED"
        /\ SpansBy(c) = {}
        /\ calls[c].err = "PublishFailure" => MessagesBy(c) = {}
        /\ calls[c].err = "StoreFailure" => Cardinality(MessagesBy(c)) = 1
\* and of the step on which the publish or the span write fails
C18_NoRollbackStep ==
    \A c \in Slots :
        (~FailedAfterUpdate(c) /\ FailedAfterUpdate(c)')
        => /\ tasks[calls[c].id].status \in {"APPROVED", "REJECTED"}
           /\ UNCHANGED <<tasks, bus, spans>>

\* C18: a failure of the publish or of the span write does not take back the
\* status update of the same approve: the task stays APPROVED, out of the
\* pending list, with no audit span of the call, and with no resume signal
\* of the call when the publish was the step that failed
C18_UpdateNotRolledBack ==
    []C18_NoRollbackState /\ [][C18_NoRollbackStep]_vars

\* one approve failed at its publish and another at its span write; the task
\* is APPROVED, the bus holds the signal of the second only, no span exists
C18_Witness ==
    \E c, d \in Approves :
        /\ calls[c].err = "PublishFailure" /\ calls[d].err = "StoreFailure"
        /\ calls[c].id = calls[d].id
        /\ tasks[calls[c].id].status = "APPROVED"
        /\ Len(bus) = 1 /\ MessagesBy(d) = {1}
        /\ spans = <<>>

\* ------------------------------------------- claims on the two zombie modes
\* the ids of the rows of a response, and of its rows flagged isZombie
IdsOf(items) == {items[i].task.id : i \in DOMAIN items}
FlaggedOf(items) ==
    {items[i].task.id : i \in {j \in DOMAIN items : items[j].isZombie}}
\* what C20 asks of a state: over the task store as it is and the clock as
\* it stands, the filter of the one mode selects what the flag of the other
\* marks
C20_ModesAgreeState ==
    ZombieIds(Cutoff(now)) =
       {t \in PendingIds : IsZombie(now, tasks[t].createdAt)}
\* and of the answers: GET /tasks/zombies returns the pending tasks GET /tasks
\* would flag at the time the handler read, and GET /tasks flags the rows
\* GET /tasks/zombies would select among them at that time
C20_ModesAgreeStep ==
    /\ (reader.pc = "zombies" /\ reader'.pc = "idle") =>
          IdsOf(resp'.items) =
             {t \in PendingIds : reader.now - tasks[t].createdAt > 300000}
    /\ (reader.pc = "tasks" /\ reader'.pc = "idle") =>
          FlaggedOf(resp'.items) =
             {reader.fetched[i].id : i \in
                {j \in DOMAIN reader.fetched :
                    reader.fetched[j].createdAt < reader'.now - 300000}}

\* C20: the two zombie modes agree: for the same task store and the same
\* current time the tasks GET /tasks/zombies returns are the tasks GET
\* /tasks returns with isZombie = true (createdAt < now - THRESHOLD exactly
\* when now - createdAt > THRESHOLD)
C20_ZombieModesAgree == []C20_ModesAgreeState /\ [][C20_ModesAgreeStep]_vars

\* GET /tasks/zombies has returned a task while another pending task, aged
\* exactly the threshold at the time of the request, is left out
C20_Witness ==
    /\ resp.kind = "zombies"
    /\ reader.now = now
    /\ Len(resp.items) >= 1
    /\ \E t \in PendingIds :
          /\ now - tasks[t].createdAt = 300000
          /\ t \notin IdsOf(resp.items)

\* --------------------------------- claims on concurrent approve and reject
\* C21: under every interleaving of approve and reject calls on one task a
\* resume signal is published only while the stored status of its task is
\* APPROVED; none is published for a task whose stored status is REJECTED at
\* the moment of the publish
C21_PublishOnlyWhileApproved ==
    [][Len(bus') > Len(bus) =>
          LET m == bus'[Len(bus')]
          IN /\ tasks[calls[m.by].id].status = "APPROVED"
             /\ tasks'[calls[m.by].id].status = "APPROVED"]_vars

\* ------------------------------------------- claims on overlapping cycles
\* the names of a registry document, in its order
CardNames(card) == [i \in DOMAIN card |-> card[i].name]
\* no cycle is in progress, one at least is over, and the error is unset
Settled ==
    /\ \A k \in Cycles : ~Running(k)
    /\ \E k \in Cycles : Over(k)
    /\ discoveryStatus.error = NoError
\* the cycles that may count as the last one: the last one the timer
\* started, and a cycle that left the status as it stands
LastCycles ==
    {k \in Cycles : /\ cycles[k].pc = "done"
                    /\ \/ \A j \in Cycles : j > k => cycles[j].pc = "idle"
                       \/ cycles[k].after.status = discoveryStatus}
\* what C22 asks of the status
SyncedIsLastCard ==
    /\ Len(discoveryStatus.agentsSynced) = discoveryStatus.agentsDiscovered
    /\ \E k \in LastCycles :
          discoveryStatus.agentsSynced = CardNames(cycles[k].card)

\* C22: whenever no discovery cycle is in progress and the error is unset
\* after at least one completed cycle, agentsSynced is the sequence of the
\* names of the registry document the last cycle processed, and its length
\* is agentsDiscovered, also when the timer started a cycle before the
\* previous one had finished
C22_SyncedMatchesLastCycle == Settled => SyncedIsLastCard

\* the same for the cycles that ran one after the other
C22_SyncedMatchesLastCycleAlone ==
    (Settled /\ \A k \in Cycles : Over(k) => RanAlone(k)) => SyncedIsLastCard

\* two cycles ran one after the other on different documents and the status
\* holds the names of the second
C22_WitnessAlone ==
    /\ Settled
    /\ RanAlone(1) /\ RanAlone(2)
    /\ cycles[1].pc = "done" /\ cycles[2].pc = "done"
    /\ cycles[1].card # cycles[2].card
    /\ discoveryStatus.agentsSynced = <<"Gamma", "Delta">>

====
